---- MODULE Spec2Model ----
(***************************************************************************)
(* Model of the A/B-test notebook "A-B Testing/notebook.ipynb".            *)
(*                                                                         *)
(* Two specifications are given.                                           *)
(*   Spec    the notebook run top to bottom on a loaded dataframe df:      *)
(*           validation cell, the two chart cells, the group summary cell, *)
(*           the get_pvalue cell and the distribution-plot cell.  A cell   *)
(*           that raises stops the run.                                    *)
(*   FnSpec  get_pvalue and the variance / standard deviation arithmetic   *)
(*           of the last cell called directly on bounded arguments.        *)
(*                                                                         *)
(* Arithmetic.  Conversion rates are ratios of small integers, so floats   *)
(* are modelled as exact rationals extended with the IEEE values inf and   *)
(* nan, which numpy produces instead of raising.  A square root is kept as *)
(* its radicand, and 2 * norm.cdf(x, 0, scale) as the signed square of the *)
(* z-score x / scale: both maps are strictly monotone, so every comparison *)
(* the code or a claim makes is decided exactly on these representatives.  *)
(***************************************************************************)
EXTENDS Integers, Sequences, FiniteSets, TLC

\* ------------------------------------------------------------------ bounds
MaxRows == 3   \* rows of a dataset
RateDen == 5   \* FnSpec: rates are k / RateDen, k in 0..RateDen
MaxSize == 3   \* FnSpec: group sizes are 0..MaxSize

\* ------------------------------------------------- extended rational floats
RECURSIVE GCD(_, _)
GCD(x, y) == IF y = 0 THEN x ELSE GCD(y, x % y)

IAbs(i) == IF i < 0 THEN -i ELSE i

ISign(i) == IF i < 0 THEN -1 ELSE IF i > 0 THEN 1 ELSE 0

\* The float n / d (d > 0), in lowest terms.
Fin(n, d) == LET g == GCD(IAbs(n), d) IN [k |-> "fin", n |-> n \div g, d |-> d \div g]

\* IEEE +inf / -inf (s = 1 / -1) and nan.
Inf(s) == [k |-> "inf", n |-> s, d |-> 0]

NaN == [k |-> "nan", n |-> 0, d |-> 0]

Zero == Fin(0, 1)

One == Fin(1, 1)

Sign(x) == ISign(x.n)

Neg(x) == IF x.k = "nan" THEN NaN ELSE [x EXCEPT !.n = -x.n]

FAbs(x) == IF x.k = "nan" THEN NaN ELSE [x EXCEPT !.n = IAbs(x.n)]

Add(x, y) ==
  IF x.k = "nan" \/ y.k = "nan" THEN NaN
  ELSE IF x.k = "inf" /\ y.k = "inf" THEN (IF x.n = y.n THEN x ELSE NaN)
  ELSE IF x.k = "inf" THEN x
  ELSE IF y.k = "inf" THEN y
  ELSE Fin(x.n * y.d + y.n * x.d, x.d * y.d)

Sub(x, y) == Add(x, Neg(y))

Mul(x, y) ==
  IF x.k = "nan" \/ y.k = "nan" THEN NaN
  ELSE IF x.k = "inf" \/ y.k = "inf"
       THEN (IF Sign(x) * Sign(y) = 0 THEN NaN ELSE Inf(Sign(x) * Sign(y)))
  ELSE Fin(x.n * y.n, x.d * y.d)

\* x <= y as floats: any comparison with nan is False.
Le(x, y) ==
  IF x.k = "nan" \/ y.k = "nan" THEN FALSE
  ELSE IF x.k = "inf" THEN (x.n = -1 \/ x = y)
  ELSE IF y.k = "inf" THEN y.n = 1
  ELSE x.n * y.d <= y.n * x.d

\* x / size for a numpy.float64 x and a numpy.int64 size >= 0, the types
\* pandas hands out: division by zero gives inf or nan with a RuntimeWarning,
\* it does not raise.
DivNp(x, size) ==
  IF x.k = "nan" THEN NaN
  ELSE IF size = 0 THEN (IF Sign(x) = 0 THEN NaN ELSE Inf(Sign(x)))
  ELSE IF x.k = "inf" THEN x
  ELSE Fin(x.n, x.d * size)

\* x ** 0.5, kept as its radicand.  pow(negative, 0.5) is nan, pow(-inf, 0.5)
\* is +inf.
Sqrt(x) ==
  IF x.k = "nan" THEN NaN
  ELSE IF x.k = "inf" THEN Inf(1)
  ELSE IF x.n < 0 THEN NaN
  ELSE x

\* x / y for finite floats with y > 0.
DivF(x, y) == Fin(x.n * y.d, x.d * y.n)

\* --------------------------------------------------------- scipy.stats.norm
\* stats.norm.cdf(x, loc=0, scale=scale), scale given by its radicand.  scipy
\* answers nan wherever scale > 0 does not hold (scale 0, negative or nan) and
\* for x nan; otherwise the value is Phi(x / scale), held as the sign and the
\* square of z = x / scale.  A scale of inf gives z = 0.
NormCdf(x, scale) ==
  IF x.k # "fin" \/ scale.k = "nan" \/ Sign(scale) <= 0
  THEN [k |-> "nan", m |-> 1, sgn |-> 0, sq |-> Zero]
  ELSE IF scale.k = "inf" THEN [k |-> "val", m |-> 1, sgn |-> 0, sq |-> Zero]
  ELSE [k |-> "val", m |-> 1, sgn |-> Sign(x), sq |-> DivF(Mul(x, x), scale)]

\* 2 * c for a cdf value c: m counts the factor, the value is m * Phi(z).
Twice(c) == [c EXCEPT !.m = 2 * c.m]

\* Squares of the z-scores at which 2 * Phi(-z) = 0.05 (z = 1.959964...,
\* z * z = 3.8414588...) and Phi(-z) = 0.05 (z = 1.644854..., z * z =
\* 2.7055434...), to four decimals.  The rates and sizes used below give no
\* squared z-score strictly between 3.84 and 3.85.
ZCritSq == Fin(38415, 10000)

ZCritSqOneTail == Fin(27055, 10000)

\* p >= 0.05 for p = m * Phi(sgn * sqrt(sq)), m in {1, 2}; False for nan.
GeAlpha(p) ==
  /\ p.k = "val"
  /\ \/ p.sgn >= 0
     \/ Le(p.sq, IF p.m = 2 THEN ZCritSq ELSE ZCritSqOneTail)

\* p < 0.05 as a float comparison; False for nan.
LtAlpha(p) == p.k = "val" /\ ~GeAlpha(p)

\* p = 1.0, that is 2 * Phi(0).
IsOne(p) == p.k = "val" /\ p.m = 2 /\ (p.sgn = 0 \/ p.sq = Zero)

\* p1 <= p2 as floats, for values with the same factor m (Phi is increasing
\* in the signed z-score).
PLe(p1, p2) ==
  /\ p1.k = "val" /\ p2.k = "val" /\ p1.m = p2.m
  /\ \/ p1.sgn < p2.sgn
     \/ p1.sgn = p2.sgn /\ p1.sgn >= 0 /\ Le(p1.sq, p2.sq)
     \/ p1.sgn = p2.sgn /\ p1.sgn < 0 /\ Le(p2.sq, p1.sq)

\* ------------------------------------------------------------- get_pvalue
NoValue == [k |-> "none", m |-> 0, sgn |-> 0, sq |-> Zero]

\* lift with the leading minus lost: abs(test_conv - con_conv).
lift_not_negated(con_conv, test_conv) == FAbs(Sub(test_conv, con_conv))

\* lift with the abs lost: -(test_conv - con_conv).
lift_no_abs(con_conv, test_conv) == Neg(Sub(test_conv, con_conv))

lift(con_conv, test_conv) == Neg(FAbs(Sub(test_conv, con_conv)))

scale_one(con_conv, con_size) == Mul(Mul(con_conv, Sub(One, con_conv)), DivNp(One, con_size))

scale_two(test_conv, test_size) == Mul(Mul(test_conv, Sub(One, test_conv)), DivNp(One, test_size))

scale_val(con_conv, test_conv, con_size, test_size) ==
  Sqrt(Add(scale_one(con_conv, con_size), scale_two(test_conv, test_size)))

Verdict(p_val) == IF GeAlpha(p_val) THEN "Not Significant" ELSE "Significant Result"

\* get_pvalue(con_conv, test_conv, con_size, test_size) on numpy scalars, the
\* types the summary cell binds: no line of it raises, and the tuple
\* (p_value, msg) is returned.  raised is "none" on every return.
get_pvalue(con_conv, test_conv, con_size, test_size) ==
  LET p == Twice(NormCdf(lift(con_conv, test_conv),
                         scale_val(con_conv, test_conv, con_size, test_size)))
  IN [raised |-> "none", p_value |-> p, msg |-> Verdict(p)]

\* a_var = (1 - a_conv) * a_conv / a_size ; a_sd = a_var ** 0.5, on numpy
\* scalars.
group_var(conv, size) ==
  LET v == DivNp(Mul(Sub(One, conv), conv), size)
  IN [var |-> v, sd |-> Sqrt(v)]

\* ------------------------------------------------------------------ state
VARIABLES
  pc,        \* Spec: the cell about to run; FnSpec: the next call
  df,        \* the loaded dataframe: a sequence of rows [uid, group, converted]
  printed,   \* what the validation cell has printed
  charts,    \* the charts rendered so far
  error,     \* the exception that stopped the run, or NoError
  a, b,      \* group names
  a_size, b_size,
  a_conv, b_conv,
  p_value,   \* the tuple get_pvalue returned to the notebook
  dist,      \* a_var, b_var, a_sd, b_sd of the last cell
  args,      \* FnSpec: arguments of the first call
  ret,       \* FnSpec: what the first call returned
  args2,     \* FnSpec: arguments of the second call
  ret2,      \* FnSpec: what the second call returned
  var_ret    \* FnSpec: outcome of the variance / standard deviation lines

vars == <<pc, df, printed, charts, error, a, b, a_size, b_size, a_conv, b_conv,
          p_value, dist, args, ret, args2, ret2, var_ret>>

nbvars == <<df, printed, charts, error, a, b, a_size, b_size, a_conv, b_conv,
            p_value, dist>>

fnvars == <<args, ret, args2, ret2, var_ret>>

\* Values of names that are not bound yet.
Unset == [k |-> "unset", n |-> 0, d |-> 0]

NoSize == -1

NoName == ""

NotCalled == [raised |-> "notcalled", p_value |-> NoValue, msg |-> "none"]

NoDist == [raised |-> "notcalled", a_var |-> Unset, b_var |-> Unset, a_sd |-> Unset, b_sd |-> Unset]

NoError == [cell |-> "none", kind |-> "none"]

NoArgs == [con_conv |-> Zero, test_conv |-> Zero, con_size |-> 0, test_size |-> 0]

\* The variance and standard deviation lines of the last cell.
dist_lines(ac, bc, asz, bsz) ==
  LET ga == group_var(ac, asz)
      gb == group_var(bc, bsz)
  IN [raised |-> "none", a_var |-> ga.var, b_var |-> gb.var, a_sd |-> ga.sd, b_sd |-> gb.sd]

\* ------------------------------------------------- FnSpec: direct calls
Rates == {Fin(i, RateDen) : i \in 0..RateDen}

Sizes == 0..MaxSize

ArgSet == [con_conv : Rates, test_conv : Rates, con_size : Sizes, test_size : Sizes]

Call(x) == get_pvalue(x.con_conv, x.test_conv, x.con_size, x.test_size)

Swapped(x) == [x EXCEPT !.con_conv = x.test_conv, !.test_conv = x.con_conv,
                        !.con_size = x.test_size, !.test_size = x.con_size]

NbIdle ==
  /\ df = <<>> /\ printed = <<>> /\ charts = <<>> /\ error = NoError
  /\ a = NoName /\ b = NoName /\ a_size = NoSize /\ b_size = NoSize
  /\ a_conv = Unset /\ b_conv = Unset /\ p_value = NotCalled /\ dist = NoDist

FnInit ==
  /\ pc = "call"
  /\ args \in ArgSet
  /\ ret = NotCalled /\ args2 = NoArgs /\ ret2 = NotCalled /\ var_ret = NoDist
  /\ NbIdle

\* get_pvalue(con_conv, test_conv, con_size, test_size)
CallGetPvalue ==
  /\ pc = "call"
  /\ ret' = Call(args)
  /\ pc' = "second"
  /\ UNCHANGED <<args, args2, ret2, var_ret>>
  /\ UNCHANGED nbvars

\* get_pvalue(test_conv, con_conv, test_size, con_size): the groups swapped
CallSwapped ==
  /\ pc = "second"
  /\ args2' = Swapped(args)
  /\ ret2' = Call(args2')
  /\ pc' = "var"
  /\ UNCHANGED <<args, ret, var_ret>>
  /\ UNCHANGED nbvars

\* get_pvalue on other rates and the same sizes
CallOtherRates ==
  /\ pc = "second"
  /\ \E rc \in Rates, rt \in Rates :
       /\ args2' = [args EXCEPT !.con_conv = rc, !.test_conv = rt]
       /\ ret2' = Call(args2')
  /\ pc' = "var"
  /\ UNCHANGED <<args, ret, var_ret>>
  /\ UNCHANGED nbvars

\* the variance and standard deviation lines on the first call's arguments
CallGroupVar ==
  /\ pc = "var"
  /\ var_ret' = dist_lines(args.con_conv, args.test_conv, args.con_size, args.test_size)
  /\ pc' = "end"
  /\ UNCHANGED <<args, ret, args2, ret2>>
  /\ UNCHANGED nbvars

FnNext == CallGetPvalue \/ CallSwapped \/ CallOtherRates \/ CallGroupVar

FnSpec == FnInit /\ [][FnNext]_vars

\* ------------------------------------------------------ pandas on df
Labels == {"A", "B", "C"}

\* Alphabetical position of a label: groupby sorts its keys.
Rank(l) == IF l = "A" THEN 1 ELSE IF l = "B" THEN 2 ELSE 3

Outcomes == {0, 1, 2}

\* The dataframe with the given columns.  The date column only feeds the
\* daily chart and is left out.
Frame(uids, groups, outcomes) ==
  [i \in 1..Len(uids) |-> [uid |-> uids[i], group |-> groups[i], converted |-> outcomes[i]]]

Column(d, c) == [i \in 1..Len(d) |-> IF c = "uid" THEN d[i].uid
                                     ELSE IF c = "group" THEN d[i].group
                                     ELSE d[i].converted]

Values(col) == {col[i] : i \in 1..Len(col)}

\* Series.unique(): the distinct values in order of first appearance.
RECURSIVE unique(_)
unique(col) ==
  IF col = <<>> THEN <<>>
  ELSE LET front == SubSeq(col, 1, Len(col) - 1)
           last == col[Len(col)]
       IN IF last \in Values(front) THEN unique(front) ELSE Append(unique(front), last)

nunique(col) == Len(unique(col))

is_unique(col) == nunique(col) = Len(col)

Count(d, g) == Cardinality({i \in 1..Len(d) : d[i].group = g})

RECURSIVE SumOver(_, _, _)
SumOver(d, g, i) ==
  IF i = 0 THEN 0
  ELSE SumOver(d, g, i - 1) + (IF d[i].group = g THEN d[i].converted ELSE 0)

Conversions(d, g) == SumOver(d, g, Len(d))

\* (df["converted"].unique() == [0, 1]).all(): numpy compares elementwise
\* after broadcasting.  One distinct value is compared with both 0 and 1, two
\* are compared in order, none or three and more cannot be broadcast against
\* a list of two and the line raises.
converted_check(d) ==
  LET u == unique(Column(d, "converted"))
  IN IF Len(u) = 1 THEN [raised |-> FALSE, value |-> (u[1] = 0 /\ u[1] = 1)]
     ELSE IF Len(u) = 2 THEN [raised |-> FALSE, value |-> (u[1] = 0 /\ u[2] = 1)]
     ELSE [raised |-> TRUE, value |-> FALSE]

\* The exception of that line depends on the numpy release: ValueError
\* (operands could not be broadcast), or, where the comparison still answers
\* a plain False with a warning, AttributeError on its .all().
BroadcastErrors == {"ValueError", "AttributeError"}

\* Series.value_counts(): one (label, count) entry per label, largest count
\* first.  The order among equal counts is not specified by pandas.
value_counts(d) ==
  LET ls == Values(Column(d, "group"))
      n == Cardinality(ls)
  IN {s \in [1..n -> ls] :
        /\ \A i, j \in 1..n : i # j => s[i] # s[j]
        /\ \A i \in 1..(n - 1) : Count(d, s[i]) >= Count(d, s[i + 1])}

\* groupby(by=['group'], as_index=False).agg(...): one row per label, sorted
\* by label, indexed 0, 1, ...  GroupIndex is the index of a label's row.
GroupIndex(d, g) == Cardinality({l \in Values(Column(d, "group")) : Rank(l) < Rank(g)})

\* cr['conv'] of a label's row
conv(d, g) == Fin(Conversions(d, g), Count(d, g))

\* Unpacking that takes the first two values and ignores the rest, as
\* a, b = u[:2] would.
unpack_fails_first_two(u) == Len(u) < 2

\* a, b = u raises ValueError unless u holds exactly two values.

unpack_fails(u) == Len(u) # 2

\* ----------------------------------------------------- Spec: the notebook
FnIdle == args = NoArgs /\ ret = NotCalled /\ args2 = NoArgs /\ ret2 = NotCalled /\ var_ret = NoDist

\* cell 3: df = pd.read_csv(...), any dataset of 1..MaxRows rows.  Row i
\* carries a uid in 1..i: every pattern of repeated and fresh uids, up to
\* renaming.
Init ==
  /\ pc = "validate"
  /\ \E n \in 1..MaxRows :
       \E uids \in [1..n -> 1..n], groups \in [1..n -> Labels], outcomes \in [1..n -> Outcomes] :
         /\ \A i \in 1..n : uids[i] <= i
         /\ df = Frame(uids, groups, outcomes)
  /\ printed = <<>> /\ charts = <<>> /\ error = NoError
  /\ a = NoName /\ b = NoName /\ a_size = NoSize /\ b_size = NoSize
  /\ a_conv = Unset /\ b_conv = Unset /\ p_value = NotCalled /\ dist = NoDist
  /\ FnIdle

\* cell 5: the three checks are printed, nothing else happens on False
ValidateOk ==
  /\ pc = "validate"
  /\ ~converted_check(df).raised
  /\ printed' = <<is_unique(Column(df, "uid")),
                  nunique(Column(df, "group")) = 2,
                  converted_check(df).value>>
  /\ pc' = "sizes"
  /\ UNCHANGED <<df, charts, error, a, b, a_size, b_size, a_conv, b_conv, p_value, dist>>
  /\ UNCHANGED fnvars

\* cell 5, the third line raising: the run stops
ValidateRaise ==
  /\ pc = "validate"
  /\ converted_check(df).raised
  /\ printed' = <<is_unique(Column(df, "uid")), nunique(Column(df, "group")) = 2>>
  /\ \E e \in BroadcastErrors : error' = [cell |-> "validate", kind |-> e]
  /\ pc' = "error"
  /\ UNCHANGED <<df, charts, a, b, a_size, b_size, a_conv, b_conv, p_value, dist>>
  /\ UNCHANGED fnvars

\* cell 7: share of each group and the bar chart of group sizes
PlotSizes ==
  /\ pc = "sizes"
  /\ charts' = Append(charts, "bar")
  /\ pc' = "daily"
  /\ UNCHANGED <<df, printed, error, a, b, a_size, b_size, a_conv, b_conv, p_value, dist>>
  /\ UNCHANGED fnvars

\* cell 9: daily conversion rate per group, line chart
PlotDaily ==
  /\ pc = "daily"
  /\ charts' = Append(charts, "line")
  /\ pc' = "summary"
  /\ UNCHANGED <<df, printed, error, a, b, a_size, b_size, a_conv, b_conv, p_value, dist>>
  /\ UNCHANGED fnvars

\* cell 11, a, b = df.group.unique() with other than two labels
SummaryUnpackRaise ==
  /\ pc = "summary"
  /\ unpack_fails(unique(Column(df, "group")))
  /\ error' = [cell |-> "summary", kind |-> "ValueError"]
  /\ pc' = "error"
  /\ UNCHANGED <<df, printed, charts, a, b, a_size, b_size, a_conv, b_conv, p_value, dist>>
  /\ UNCHANGED fnvars

\* cell 11, .conv[0] or .conv[1] looked up on a row whose index is the other
\* one: names and sizes are bound, the rates are not
SummaryKeyRaise ==
  /\ pc = "summary"
  /\ ~unpack_fails(unique(Column(df, "group")))
  /\ LET u == unique(Column(df, "group"))
     IN /\ (GroupIndex(df, u[1]) # 0 \/ GroupIndex(df, u[2]) # 1)
        /\ a' = u[1] /\ b' = u[2]
        /\ \E vc \in value_counts(df) :
             /\ a_size' = Count(df, vc[1])
             /\ b_size' = Count(df, vc[2])
  /\ error' = [cell |-> "summary", kind |-> "KeyError"]
  /\ pc' = "error"
  /\ UNCHANGED <<df, printed, charts, a_conv, b_conv, p_value, dist>>
  /\ UNCHANGED fnvars

\* cell 11 running through.  a and b are the labels in order of first
\* appearance; value_counts()[0] and [1] are positional on the label-indexed
\* counts, so a_size is the larger count and b_size the smaller; .conv[0] and
\* .conv[1] are looked up by row index in the label-sorted groupby result.
Summary ==
  /\ pc = "summary"
  /\ ~unpack_fails(unique(Column(df, "group")))
  /\ LET u == unique(Column(df, "group"))
     IN /\ GroupIndex(df, u[1]) = 0 /\ GroupIndex(df, u[2]) = 1
        /\ a' = u[1] /\ b' = u[2]
        /\ \E vc \in value_counts(df) :
             /\ a_size' = Count(df, vc[1])
             /\ b_size' = Count(df, vc[2])
        /\ a_conv' = conv(df, u[1])
        /\ b_conv' = conv(df, u[2])
  /\ pc' = "pvalue"
  /\ UNCHANGED <<df, printed, charts, error, p_value, dist>>
  /\ UNCHANGED fnvars

\* cell 13: p_value = get_pvalue(a_conv, b_conv, a_size, b_size)
PValue ==
  /\ pc = "pvalue"
  /\ p_value' = get_pvalue(a_conv, b_conv, a_size, b_size)
  /\ pc' = "dist"
  /\ UNCHANGED <<df, printed, charts, error, a, b, a_size, b_size, a_conv, b_conv, dist>>
  /\ UNCHANGED fnvars

\* cell 15: variances, standard deviations and the two normal curves
PlotDist ==
  /\ pc = "dist"
  /\ dist' = dist_lines(a_conv, b_conv, a_size, b_size)
  /\ charts' = Append(charts, "normal")
  /\ pc' = "done"
  /\ UNCHANGED <<df, printed, error, a, b, a_size, b_size, a_conv, b_conv, p_value>>
  /\ UNCHANGED fnvars

Next ==
  \/ ValidateOk \/ ValidateRaise \/ PlotSizes \/ PlotDaily
  \/ SummaryUnpackRaise \/ SummaryKeyRaise \/ Summary \/ PValue \/ PlotDist

Spec == Init /\ [][Next]_vars

\* ------------------------------------------------- properties of get_pvalue
Returned == pc # "call"

BothReturned == pc \in {"var", "end"}

PositiveSizes(x) == x.con_size > 0 /\ x.test_size > 0

StandardError(x) == scale_val(x.con_conv, x.test_conv, x.con_size, x.test_size)

Diff(x) == Sub(x.test_conv, x.con_conv)

\* Positive sizes and a pooled standard error that is not zero.
ValidArgs(x) == PositiveSizes(x) /\ StandardError(x) # Zero

\* C1: the verdict is Significant exactly when p_value < 0.05 and Not
\* Significant exactly when p_value >= 0.05; a p_value that is not below 0.05,
\* an undefined one included, is never reported as Significant.  Stated for
\* the calls with positive sizes, where it already fails.
C1_VerdictMatchesThreshold ==
  (Returned /\ PositiveSizes(args) /\ ret.raised = "none") =>
     /\ (ret.msg = "Significant Result") <=> LtAlpha(ret.p_value)
     /\ (ret.msg = "Not Significant") <=> GeAlpha(ret.p_value)

\* C2: with size_control = 0 or size_test = 0 the significance computation
\* fails with InvalidInput and returns neither p-value nor verdict, and so do
\* the variance / standard deviation lines.
C2_ZeroSizeIsInvalidInput ==
  (args.con_size = 0 \/ args.test_size = 0) =>
     /\ Returned => (ret.raised = "InvalidInput" /\ ret.p_value = NoValue /\ ret.msg = "none")
     /\ pc = "end" => (var_ret.raised = "InvalidInput" /\ var_ret.a_sd = Unset /\ var_ret.b_sd = Unset)

\* C3: with positive sizes and a pooled standard error of 0 the computation
\* fails with DegenerateDistribution and reports no p-value and no verdict.
C3_ZeroStandardErrorIsDegenerate ==
  (Returned /\ PositiveSizes(args) /\ StandardError(args) = Zero) =>
     (ret.raised = "DegenerateDistribution" /\ ret.p_value = NoValue /\ ret.msg = "none")

\* C4: for positive sizes and any rate r, rate_control = rate_test = r gives
\* lift 0, p_value 1.0 and the verdict Not Significant.
C4_EqualRatesNeverSignificant ==
  (Returned /\ PositiveSizes(args) /\ args.con_conv = args.test_conv) =>
     /\ lift(args.con_conv, args.test_conv) = Zero
     /\ ret.raised = "none"
     /\ IsOne(ret.p_value)
     /\ ret.msg = "Not Significant"

\* C5 as stated: for two valid inputs with the same sizes, the one with the
\* larger or equal |rate_test - rate_control| has the smaller or equal
\* p_value, whatever the two rate pairs are.
C5_MonotoneInAbsDiff ==
  (/\ BothReturned
   /\ args.con_size = args2.con_size /\ args.test_size = args2.test_size
   /\ ValidArgs(args) /\ ValidArgs(args2)
   /\ Le(FAbs(Diff(args2)), FAbs(Diff(args))))
  => PLe(ret.p_value, ret2.p_value)

\* C5 amended: for two valid inputs with the same sizes and the same
\* rate_control, whose rate_test lie on the same side of rate_control, the
\* one with the larger or equal |rate_test - rate_control| has the smaller or
\* equal p_value.
C5_MonotoneAwayFromControl ==
  (/\ BothReturned
   /\ args.con_size = args2.con_size /\ args.test_size = args2.test_size
   /\ ValidArgs(args) /\ ValidArgs(args2)
   /\ args.con_conv = args2.con_conv
   /\ Sign(Diff(args)) * Sign(Diff(args2)) >= 0
   /\ Le(FAbs(Diff(args2)), FAbs(Diff(args))))
  => PLe(ret.p_value, ret2.p_value)

\* Two valid calls sharing sizes and rate_control, rate_test moved further
\* away on the same side, and a p_value that really dropped.
C5_Witness ==
  /\ BothReturned
  /\ args.con_size = args2.con_size /\ args.test_size = args2.test_size
  /\ args.con_size # args.test_size
  /\ ValidArgs(args) /\ ValidArgs(args2)
  /\ args.con_conv = args2.con_conv
  /\ Sign(Diff(args)) * Sign(Diff(args2)) > 0
  /\ FAbs(Diff(args2)) # FAbs(Diff(args))
  /\ Le(FAbs(Diff(args2)), FAbs(Diff(args)))
  /\ PLe(ret.p_value, ret2.p_value) /\ ret.p_value # ret2.p_value
  /\ ret.msg = "Significant Result" /\ ret2.msg = "Not Significant"

\* C6: get_pvalue(rc, rt, nc, nt) and get_pvalue(rt, rc, nt, nc) return the
\* same p_value and the same verdict, and lift and pooled standard error are
\* the same for both.
C6_SymmetricInGroups ==
  (BothReturned /\ args2 = Swapped(args)) =>
     /\ ret2.p_value = ret.p_value
     /\ ret2.msg = ret.msg
     /\ lift(args2.con_conv, args2.test_conv) = lift(args.con_conv, args.test_conv)
     /\ StandardError(args2) = StandardError(args)

\* A swapped call that differs from the first in rates and in sizes, on
\* valid arguments, with a defined p_value.
C6_Witness ==
  /\ BothReturned /\ args2 = Swapped(args)
  /\ args.con_conv # args.test_conv /\ args.con_size # args.test_size
  /\ ValidArgs(args)
  /\ ret.raised = "none" /\ ret.p_value.k = "val" /\ ret2.p_value = ret.p_value

\* ------------------------------------------------ properties of the notebook
Validated == pc # "validate"

SummaryRan == pc \in {"pvalue", "dist", "done"} \/ error.cell = "summary"

\* What the validation cell is documented to check.
ValidDataset(d) ==
  /\ is_unique(Column(d, "uid"))
  /\ Cardinality(Values(Column(d, "group"))) = 2
  /\ Values(Column(d, "converted")) \subseteq {0, 1}

NothingSummarised ==
  /\ a = NoName /\ b = NoName /\ a_size = NoSize /\ b_size = NoSize
  /\ a_conv = Unset /\ b_conv = Unset /\ p_value = NotCalled /\ dist = NoDist

\* C7: a dataset failing a validator check ends the run in a ValidationError
\* and no later stage runs: no chart, group summary, p-value or verdict.
C7_InvalidDataStopsRun ==
  (Validated /\ ~ValidDataset(df)) =>
     (pc = "error" /\ error.kind = "ValidationError" /\ charts = <<>> /\ NothingSummarised)

C9_SummaryBelongsToLabel ==
  (SummaryRan /\ ValidDataset(df)) =>
     /\ error = NoError
     /\ a_size = Count(df, a) /\ b_size = Count(df, b)
     /\ a_conv = conv(df, a) /\ b_conv = conv(df, b)

\* C10: the outcome-coding check prints True exactly when every value of the
\* converted column is 0 or 1.
C10_OutcomeCheckAcceptsExactlyZeroOne ==
  Validated =>
     ((Len(printed) = 3 /\ printed[3]) <=> Values(Column(df, "converted")) \subseteq {0, 1})

====
